---- MODULE Spec2Model ----
(***************************************************************************)
(* A model of scripts/dev-server.py: the development static file server.   *)
(*                                                                         *)
(* The script resolves its command line into (port, directory, host),      *)
(* changes into the directory, binds a socketserver.TCPServer with         *)
(* CustomHTTPRequestHandler and serves until interrupted.  The handler     *)
(* overrides two callbacks of http.server.SimpleHTTPRequestHandler:        *)
(* guess_type and end_headers.  The parts of the Python standard library   *)
(* the script calls (int, argparse, socketserver, http.server) are         *)
(* modelled as CPython 3.11 executes them, at the call sites.              *)
(*                                                                         *)
(* Strings are TLA+ strings; characters are taken with SubSeq.             *)
(***************************************************************************)
EXTENDS Integers, Sequences, FiniteSets, TLC

(***************************************************************************)
(* Bounds of the model.                                                    *)
(***************************************************************************)
\* the longest command line drawn by InitArgs
MaxArgs == 3
\* the number of connections one run accepts
MaxRequests == 2

(***************************************************************************)
(* Program constants.                                                      *)
(***************************************************************************)
DefaultPort == 8080
DefaultDirectory == "."
DefaultHost == "0.0.0.0"
\* the errno the script takes for "address already in use"
HandledErrno == 48

(***************************************************************************)
(* str methods.                                                            *)
(***************************************************************************)
Char(s, i) == SubSeq(s, i, i)

startswith(s, pre) ==
    /\ Len(s) >= Len(pre)
    /\ SubSeq(s, 1, Len(pre)) = pre

endswith(s, suf) ==
    /\ Len(s) >= Len(suf)
    /\ SubSeq(s, Len(s) - Len(suf) + 1, Len(s)) = suf

RECURSIVE LStrip(_)
LStrip(s) ==
    IF Len(s) > 0 /\ Char(s, 1) = " " THEN LStrip(SubSeq(s, 2, Len(s))) ELSE s

RECURSIVE RStrip(_)
RStrip(s) ==
    IF Len(s) > 0 /\ Char(s, Len(s)) = " "
    THEN RStrip(SubSeq(s, 1, Len(s) - 1)) ELSE s

(***************************************************************************)
(* int(str): surrounding whitespace is dropped, one sign is allowed, and   *)
(* the rest is decimal digits, single underscores allowed between digits.  *)
(* Anything else raises ValueError.                                        *)
(***************************************************************************)
Digits == {"0", "1", "2", "3", "4", "5", "6", "7", "8", "9"}

DigitVal(c) ==
    CASE c = "0" -> 0 [] c = "1" -> 1 [] c = "2" -> 2 [] c = "3" -> 3
      [] c = "4" -> 4 [] c = "5" -> 5 [] c = "6" -> 6 [] c = "7" -> 7
      [] c = "8" -> 8 [] c = "9" -> 9

IntBodyOk(b) ==
    /\ Len(b) > 0
    /\ Char(b, 1) \in Digits
    /\ Char(b, Len(b)) \in Digits
    /\ \A i \in 1..Len(b) : Char(b, i) \in Digits \cup {"_"}
    /\ \A i \in 1..(Len(b) - 1) : ~(Char(b, i) = "_" /\ Char(b, i + 1) = "_")

RECURSIVE IntBodyVal(_, _)
IntBodyVal(b, acc) ==
    IF Len(b) = 0 THEN acc
    ELSE IF Char(b, 1) = "_" THEN IntBodyVal(SubSeq(b, 2, Len(b)), acc)
    ELSE IntBodyVal(SubSeq(b, 2, Len(b)), 10 * acc + DigitVal(Char(b, 1)))

PyInt(s) ==
    LET t == RStrip(LStrip(s))
        signed == Len(t) > 0 /\ Char(t, 1) \in {"+", "-"}
        b == IF signed THEN SubSeq(t, 2, Len(t)) ELSE t
    IN  IF IntBodyOk(b)
        THEN [ok |-> TRUE,
              val |-> IF signed /\ Char(t, 1) = "-"
                      THEN 0 - IntBodyVal(b, 0) ELSE IntBodyVal(b, 0)]
        ELSE [ok |-> FALSE, val |-> 0]

(***************************************************************************)
(* Argument resolution (the __main__ block).                               *)
(*                                                                         *)
(* A resolution is one of                                                  *)
(*   [kind |-> "config", style, port, directory, host]  run_server is      *)
(*                                                       called with these *)
(*   [kind |-> "exit", style, status, msg]               argparse exited   *)
(*   [kind |-> "raise", style]                           int() raised      *)
(***************************************************************************)
Config(style, port, directory, host) ==
    [kind |-> "config", style |-> style, port |-> port,
     directory |-> directory, host |-> host]

ArgExit(status, msg) ==
    [kind |-> "exit", style |-> "flag", status |-> status, msg |-> msg]

\* the namespace argparse starts from: the defaults of the three add_argument
ParserDefaults ==
    [port |-> DefaultPort, directory |-> DefaultDirectory, host |-> DefaultHost]

\* the option strings of the parser: the three declared ones and argparse's help
OptionDest(t) ==
    CASE t \in {"--port", "-p"} -> "port"
      [] t \in {"--directory", "-d"} -> "directory"
      [] t = "--host" -> "host"
      [] t \in {"--help", "-h"} -> "help"
      [] OTHER -> "none"

\* argparse takes "-5" for a value, not a flag: the parser declares no option
\* that looks like a negative number
NegativeNumber(t) ==
    /\ Len(t) >= 2
    /\ Char(t, 1) = "-"
    /\ \A i \in 2..Len(t) : Char(t, i) \in Digits

\* what may stand as the value of an option: a string that is no flag
\* (argparse takes no string with a space in it for a flag)
ValueLike(t) ==
    \/ ~startswith(t, "-")
    \/ t = "-"
    \/ NegativeNumber(t)
    \/ \E i \in 1..Len(t) : Char(t, i) = " "

(***************************************************************************)
(* parser.parse_args() over argv[i..]: options are consumed left to right; *)
(* help exits 0 where it stands; an option without a value, or a port      *)
(* value int() rejects, is a usage error (status 2) where it stands; what  *)
(* is no option is kept as unrecognized and is a usage error at the end.   *)
(***************************************************************************)
RECURSIVE ParseArgs(_, _, _, _)
ParseArgs(argv, i, ns, extras) ==
    IF i > Len(argv)
    THEN IF extras > 0 THEN ArgExit(2, "usage")
         ELSE Config("flag", ns.port, ns.directory, ns.host)
    ELSE LET t == argv[i]
             dest == OptionDest(t)
         IN  IF dest = "help" THEN ArgExit(0, "help")
             ELSE IF dest = "none" THEN ParseArgs(argv, i + 1, ns, extras + 1)
             ELSE IF i = Len(argv) \/ ~ValueLike(argv[i + 1])
                  THEN ArgExit(2, "usage")
             ELSE LET v == argv[i + 1]
                  IN  IF dest = "port"
                      THEN IF PyInt(v).ok
                           THEN ParseArgs(argv, i + 2,
                                          [ns EXCEPT !.port = PyInt(v).val],
                                          extras)
                           ELSE ArgExit(2, "usage")
                      ELSE ParseArgs(argv, i + 2, [ns EXCEPT ![dest] = v],
                                     extras)

\* a variant of the test that takes the legacy style when argument 1 is a number
LegacySelected_NumericFirst(argv) ==
    Len(argv) > 0 /\ PyInt(argv[1]).ok

\* the test that selects the legacy positional style
LegacySelected(argv) ==
    Len(argv) > 0 /\ ~startswith(argv[1], "-")

\* a variant of the legacy branch that falls back to the default port
LegacyArgs_DefaultOnBadPort(argv) ==
    Config("legacy",
           IF PyInt(argv[1]).ok THEN PyInt(argv[1]).val ELSE DefaultPort,
           IF Len(argv) > 1 THEN argv[2] ELSE DefaultDirectory,
           IF Len(argv) > 2 THEN argv[3] ELSE DefaultHost)

\* the legacy branch: int(sys.argv[1]), then the directory and the host
LegacyArgs(argv) ==
    IF ~PyInt(argv[1]).ok THEN [kind |-> "raise", style |-> "legacy"]
    ELSE Config("legacy",
                PyInt(argv[1]).val,
                IF Len(argv) > 1 THEN argv[2] ELSE DefaultDirectory,
                IF Len(argv) > 2 THEN argv[3] ELSE DefaultHost)

\* argv here is sys.argv[1:]
ResolveArgs(argv) ==
    IF LegacySelected(argv) THEN LegacyArgs(argv)
    ELSE ParseArgs(argv, 1, ParserDefaults, 0)

(***************************************************************************)
(* The environment of a run.                                               *)
(***************************************************************************)
\* the strings a command line is made of: numbers, non-numbers, the option
\* strings in full, an unknown flag and directory names.  No abbreviated
\* (--po), joined (--port=80, -p80) or "--" argument is drawn, and ParseArgs
\* matches option strings exactly.
Tokens ==
    {"80", "+8", "-5", "abc", "", "-p", "--port", "-d", "--directory",
     "--host", "-h", "--help", "-x", "D", "nodir", "."}

ArgvSet == UNION {[1..n -> Tokens] : n \in 0..MaxArgs}

\* the command lines of the runs that are followed through the serving loop
ServeArgv ==
    {<<>>, <<"80", "D">>, <<"-d", "D">>, <<"--port", "+8", "--host", "h1">>,
     <<"abc">>, <<"-h">>, <<"80", "nodir">>}

\* the name the model gives the directory the process is started in
LaunchDir == "<launch>"

\* os.chdir(d) succeeds on the directories that exist and can be entered
DirOk(d) == d \in {"D", "."}

\* the tree under the working directory, by request target
IsDir(cwd, target) ==
    IF cwd = "D" THEN target \in {"/", "/sub", "/sub/"} ELSE target = "/"

IsFile(cwd, target) ==
    IF cwd = "D"
    THEN target \in {"/index.html", "/app.js", "/mod.mjs", "/data.json",
                     "/style.css", "/logo.png"}
    ELSE target = "/app.js"

\* the errno of "address already in use" on the platform the process runs on
AddrInUseErrno(platform) == IF platform = "darwin" THEN 48 ELSE 98

Platforms == {"darwin", "linux"}

(***************************************************************************)
(* Requests.  A request line of two words is an HTTP/0.9 request; a        *)
(* version of HTTP/2.0 is one the stock handler refuses.                   *)
(***************************************************************************)
Methods == {"GET", "HEAD", "POST"}

Versions == {"HTTP/0.9", "HTTP/1.0", "HTTP/1.1", "HTTP/2.0"}

Targets ==
    {"/index.html", "/app.js", "/mod.mjs", "/data.json", "/style.css",
     "/logo.png", "/missing.txt", "/sub", "/sub/", "/"}

Requests ==
    {[kind |-> "request", method |-> m, target |-> t, version |-> v] :
        m \in Methods, t \in Targets, v \in Versions}

NoReq == [kind |-> "none", method |-> "", target |-> "", version |-> ""]

(***************************************************************************)
(* Content-type resolution.                                                *)
(***************************************************************************)
\* SimpleHTTPRequestHandler.guess_type, the default guesser: it returns one
\* string, the MIME type it finds for the extension
StockGuessType(path) ==
    CASE endswith(path, ".html") -> "text/html"
      [] endswith(path, ".js") -> "text/javascript"
      [] endswith(path, ".mjs") -> "text/javascript"
      [] endswith(path, ".json") -> "application/json"
      [] endswith(path, ".css") -> "text/css"
      [] endswith(path, ".png") -> "image/png"
      [] endswith(path, ".txt") -> "text/plain"
      [] OTHER -> "application/octet-stream"

\* Python's "a, b = v" on a string v: it iterates the characters of v, and
\* raises ValueError unless there are exactly two
Unpack2(v) ==
    IF Len(v) = 2 THEN [ok |-> TRUE, a |-> Char(v, 1), b |-> Char(v, 2)]
    ELSE [ok |-> FALSE, a |-> "", b |-> ""]

\* the override table, applied to the baseline mimetype
OverrideMime(path, mimetype) ==
    IF endswith(path, ".js") THEN "application/javascript"
    ELSE IF endswith(path, ".mjs") THEN "application/javascript"
    ELSE IF endswith(path, ".json") THEN "application/json"
    ELSE IF endswith(path, ".css") THEN "text/css"
    ELSE IF endswith(path, ".html") THEN "text/html"
    ELSE mimetype

NoGuess ==
    [called |-> FALSE, raised |-> FALSE, path |-> "", mimetype |-> "",
     encoding |-> ""]

\* CustomHTTPRequestHandler.guess_type
guess_type(path) ==
    LET u == Unpack2(StockGuessType(path))
    IN  IF ~u.ok
        THEN [called |-> TRUE, raised |-> TRUE, path |-> path,
              mimetype |-> "", encoding |-> ""]
        ELSE [called |-> TRUE, raised |-> FALSE, path |-> path,
              mimetype |-> OverrideMime(path, u.a), encoding |-> u.b]

(***************************************************************************)
(* Responses.  The stock handler buffers the status line and the headers   *)
(* and writes nothing of them for an HTTP/0.9 request.                     *)
(***************************************************************************)
\* status: the code given to send_response; headers: the header block as
\* buffered; terminated: the block was ended and flushed; entity: a body is
\* to follow the headers; body: the body was written
NoResp ==
    [status |-> 0, headers |-> <<>>, terminated |-> FALSE,
     entity |-> FALSE, body |-> FALSE]

\* BaseHTTPRequestHandler.send_header
SendHeader(rv, resp, name, value) ==
    IF rv = "HTTP/0.9" \/ resp.terminated THEN resp
    ELSE [resp EXCEPT !.headers = Append(@, <<name, value>>)]

\* BaseHTTPRequestHandler.send_response: status line, Server, Date
SendResponse(rv, code) ==
    SendHeader(rv,
        SendHeader(rv, [NoResp EXCEPT !.status = code], "Server", "SimpleHTTP"),
        "Date", "now")

\* BaseHTTPRequestHandler.send_error, up to its call of end_headers
SendError(rv, code) ==
    SendHeader(rv,
        SendHeader(rv,
            SendHeader(rv, SendResponse(rv, code), "Connection", "close"),
            "Content-Type", "text/html;charset=utf-8"),
        "Content-Length", "n")

\* BaseHTTPRequestHandler.end_headers: the blank line, and the flush
StockEndHeaders(rv, resp) ==
    IF rv = "HTTP/0.9" THEN resp ELSE [resp EXCEPT !.terminated = TRUE]

\* the six send_header calls of the override, in their order
FixedHeaders ==
    << <<"Cache-Control", "no-cache, no-store, must-revalidate">>,
       <<"Pragma", "no-cache">>,
       <<"Expires", "0">>,
       <<"X-Content-Type-Options", "nosniff">>,
       <<"X-Frame-Options", "DENY">>,
       <<"X-XSS-Protection", "1; mode=block">> >>

RECURSIVE SendHeaders(_, _, _)
SendHeaders(rv, resp, hs) ==
    IF hs = <<>> THEN resp
    ELSE SendHeaders(rv, SendHeader(rv, resp, Head(hs)[1], Head(hs)[2]),
                     Tail(hs))

\* a variant of end_headers that ends the header block first
end_headers_TerminateFirst(rv, resp) ==
    SendHeaders(rv, StockEndHeaders(rv, resp), FixedHeaders)

\* CustomHTTPRequestHandler.end_headers
end_headers(rv, resp) ==
    StockEndHeaders(rv, SendHeaders(rv, resp, FixedHeaders))

(***************************************************************************)
(* The state of one run of the script.                                     *)
(***************************************************************************)
VARIABLES
    argv,         \* sys.argv[1:]
    platform,     \* the platform of the run
    taken,        \* another instance holds (host, port)
    pc,           \* where the process is
    res,          \* the resolution of the command line
    cwd,          \* the working directory
    entered,      \* os.chdir: "no" (not called), "ok", "failed"
    sock,         \* the listening socket: "none", "listening", "closed"
    binds,        \* the number of socket binds attempted
    bound,        \* the outcome of the bind: "none", "ok", "in_use", "other"
    closes,       \* the number of times a listening socket was released
    status,       \* the exit status, once pc = "exited"
    out,          \* what was printed, in order
    interrupted,  \* the interrupt was delivered
    intAt,        \* where the process was when it was delivered
    req,          \* the request being handled
    rv,           \* the handler's request_version
    resp,         \* the response being written
    guess,        \* the last call of guess_type
    inflight,     \* the connections accepted and not yet shut down
    log           \* the outcome of each connection handled, in order

vars ==
    <<argv, platform, taken, pc, res, cwd, entered, sock, binds, bound,
      closes, status, out, interrupted, intAt, req, rv, resp, guess,
      inflight, log>>

envVars == <<argv, platform, taken>>
startVars == <<res, cwd, entered, sock, binds, bound>>
connVars == <<req, rv, resp, guess, inflight, log>>
intVars == <<interrupted, intAt>>

NoRes == [kind |-> "none", style |-> "none"]

Msg(kind) == [kind |-> kind, port |-> 0]
PortMsg(kind, port) == [kind |-> kind, port |-> port]

Printed(kind) == \E i \in 1..Len(out) : out[i].kind = kind

InitRest ==
    /\ pc = "start"
    /\ res = NoRes
    /\ cwd = LaunchDir
    /\ entered = "no"
    /\ sock = "none"
    /\ binds = 0
    /\ bound = "none"
    /\ closes = 0
    /\ status = 0
    /\ out = <<>>
    /\ interrupted = FALSE
    /\ intAt = "none"
    /\ req = NoReq
    /\ rv = ""
    /\ resp = NoResp
    /\ guess = NoGuess
    /\ inflight = 0
    /\ log = <<>>

Init ==
    /\ argv \in ServeArgv
    /\ platform \in Platforms
    /\ taken \in BOOLEAN
    /\ InitRest

InitArgs ==
    /\ argv \in ArgvSet
    /\ platform \in Platforms
    /\ taken \in BOOLEAN
    /\ InitRest

(***************************************************************************)
(* Startup: the __main__ block and run_server up to serve_forever.         *)
(***************************************************************************)
\* an exception nobody handles: the traceback, and exit status 1
Unhandled ==
    /\ out' = Append(out, Msg("traceback"))
    /\ status' = 1
    /\ pc' = "exited"

\* the __main__ block: resolve the command line, then call run_server
Main ==
    /\ pc = "start"
    /\ LET r == ResolveArgs(argv)
       IN  /\ res' = r
           /\ CASE r.kind = "config" ->
                     /\ pc' = "run_server"
                     /\ UNCHANGED <<status, out>>
                [] r.kind = "exit" ->
                     /\ out' = Append(out, Msg(r.msg))
                     /\ status' = r.status
                     /\ pc' = "exited"
                [] r.kind = "raise" -> Unhandled
    /\ UNCHANGED <<cwd, entered, sock, binds, bound, closes>>
    /\ UNCHANGED <<envVars, intVars, connVars>>

\* a variant of the directory change that goes on when os.chdir fails
Chdir_IgnoreFailure ==
    /\ pc = "run_server"
    /\ IF res.directory = "."
       THEN UNCHANGED <<cwd, entered>>
       ELSE IF DirOk(res.directory)
       THEN cwd' = res.directory /\ entered' = "ok"
       ELSE entered' = "failed" /\ UNCHANGED cwd
    /\ pc' = "bind"
    /\ UNCHANGED <<res, sock, binds, bound, closes, status, out>>
    /\ UNCHANGED <<envVars, intVars, connVars>>

\* run_server: if directory != '.': os.chdir(directory)
Chdir ==
    /\ pc = "run_server"
    /\ IF res.directory = "."
       THEN /\ pc' = "bind"
            /\ UNCHANGED <<cwd, entered, status, out>>
       ELSE IF DirOk(res.directory)
       THEN /\ cwd' = res.directory
            /\ entered' = "ok"
            /\ pc' = "bind"
            /\ UNCHANGED <<status, out>>
       ELSE /\ entered' = "failed"
            /\ Unhandled
            /\ UNCHANGED cwd
    /\ UNCHANGED <<res, sock, binds, bound, closes>>
    /\ UNCHANGED <<envVars, intVars, connVars>>

\* the except OSError clause of run_server
OnBindOSError(errno) ==
    IF errno = HandledErrno
    THEN /\ out' = Append(out, PortMsg("port_in_use", res.port))
         /\ status' = 1
         /\ pc' = "exited"
    ELSE Unhandled

\* socketserver.TCPServer((host, port), handler): the socket is created and
\* bound; a bind that fails closes the socket and raises
Bind ==
    /\ pc = "bind"
    /\ binds' = binds + 1
    /\ \E fault \in {"none", "other"} :
          IF res.port < 0 \/ res.port > 65535
          THEN \* OverflowError, which is no OSError
               /\ bound' = "other"
               /\ sock' = "closed"
               /\ Unhandled
          ELSE IF taken
          THEN /\ bound' = "in_use"
               /\ sock' = "closed"
               /\ OnBindOSError(AddrInUseErrno(platform))
          ELSE IF fault = "other"
          THEN \* another OSError, such as EACCES; neither platform numbers
               \* one of those 48
               /\ bound' = "other"
               /\ sock' = "closed"
               /\ OnBindOSError(0)
          ELSE /\ bound' = "ok"
               /\ sock' = "listening"
               /\ pc' = "announce"
               /\ UNCHANGED <<status, out>>
    /\ UNCHANGED <<res, cwd, entered, closes>>
    /\ UNCHANGED <<envVars, intVars, connVars>>

\* the three prints inside the with block
Announce ==
    /\ pc = "announce"
    /\ out' = out \o <<PortMsg("serving", res.port)>>
                  \o (IF res.host = "0.0.0.0"
                      THEN <<PortMsg("external", res.port)>> ELSE <<>>)
                  \o <<Msg("press_ctrl_c")>>
    /\ pc' = "accept"
    /\ UNCHANGED <<startVars, closes, status>>
    /\ UNCHANGED <<envVars, intVars, connVars>>

(***************************************************************************)
(* The serving loop: httpd.serve_forever() with CustomHTTPRequestHandler.  *)
(* TCPServer handles a connection inside the loop, from accept to          *)
(* shutdown_request, before it selects on the listening socket again.      *)
(***************************************************************************)
HandlingPcs == {"parse", "send_head", "end_headers", "body", "finish", "fault"}

LoopPcs == {"accept"} \cup HandlingPcs

\* a variant in which a connection is accepted while another is handled
AcceptReady_Threaded == pc \in LoopPcs

\* the loop is at its select/accept
AcceptReady == pc = "accept"

Accept(r) ==
    /\ AcceptReady
    /\ Len(log) + inflight < MaxRequests
    /\ req' = r
    /\ rv' = ""
    /\ resp' = NoResp
    /\ guess' = NoGuess
    /\ inflight' = inflight + 1
    /\ pc' = "parse"
    /\ UNCHANGED <<startVars, closes, status, out, log>>
    /\ UNCHANGED <<envVars, intVars>>

\* BaseHTTPRequestHandler.parse_request and the method dispatch of
\* handle_one_request.  request_version starts as HTTP/0.9 and is set to
\* the version of the request line only when parse_request accepts it.
ParseRequest ==
    /\ pc = "parse"
    /\ IF req.version = "HTTP/2.0"
       THEN /\ rv' = "HTTP/0.9"
            /\ resp' = [SendError("HTTP/0.9", 505) EXCEPT !.entity = TRUE]
            /\ pc' = "end_headers"
       ELSE IF req.version = "HTTP/0.9"
       THEN /\ rv' = "HTTP/0.9"
            /\ IF req.method # "GET"
               THEN /\ resp' = [SendError("HTTP/0.9", 400)
                                   EXCEPT !.entity = TRUE]
                    /\ pc' = "end_headers"
               ELSE /\ pc' = "send_head"
                    /\ UNCHANGED resp
       ELSE /\ rv' = req.version
            /\ IF req.method \notin {"GET", "HEAD"}
               THEN /\ resp' = [SendError(req.version, 501)
                                   EXCEPT !.entity = TRUE]
                    /\ pc' = "end_headers"
               ELSE /\ pc' = "send_head"
                    /\ UNCHANGED resp
    /\ UNCHANGED <<startVars, closes, status, out, req, guess, inflight, log>>
    /\ UNCHANGED <<envVars, intVars>>

\* str() of the pair guess_type returns, as send_header formats it
PairStr(g) == "('" \o g.mimetype \o "', '" \o g.encoding \o "')"

\* SimpleHTTPRequestHandler.send_head on a path that is no directory:
\* ctype = self.guess_type(path) comes first, then the file is opened
SendFile(path) ==
    LET g == guess_type(path)
        get == req.method = "GET"
    IN  /\ guess' = g
        /\ IF g.raised
           THEN /\ pc' = "fault"
                /\ UNCHANGED resp
           ELSE /\ pc' = "end_headers"
                /\ resp' =
                     IF endswith(path, "/") \/ ~IsFile(cwd, path)
                     THEN [SendError(rv, 404) EXCEPT !.entity = get]
                     ELSE [SendHeader(rv,
                             SendHeader(rv,
                               SendHeader(rv, SendResponse(rv, 200),
                                          "Content-type", PairStr(g)),
                               "Content-Length", "n"),
                             "Last-Modified", "then")
                           EXCEPT !.entity = get]

\* SimpleHTTPRequestHandler.send_head, called by do_GET and do_HEAD
SendHead ==
    /\ pc = "send_head"
    /\ LET t == req.target
           get == req.method = "GET"
       IN  IF IsDir(cwd, t)
           THEN IF ~endswith(t, "/")
                THEN /\ resp' = SendHeader(rv,
                                  SendHeader(rv, SendResponse(rv, 301),
                                             "Location", t \o "/"),
                                  "Content-Length", "0")
                     /\ pc' = "end_headers"
                     /\ UNCHANGED guess
                ELSE IF IsFile(cwd, t \o "index.html")
                THEN SendFile(t \o "index.html")
                ELSE \* list_directory
                     /\ resp' = [SendHeader(rv,
                                   SendHeader(rv, SendResponse(rv, 200),
                                              "Content-type",
                                              "text/html; charset=utf-8"),
                                   "Content-Length", "n")
                                 EXCEPT !.entity = get]
                     /\ pc' = "end_headers"
                     /\ UNCHANGED guess
           ELSE SendFile(t)
    /\ UNCHANGED <<startVars, closes, status, out, req, rv, inflight, log>>
    /\ UNCHANGED <<envVars, intVars>>

\* self.end_headers(), which every response of the stock handler calls
EndHeaders ==
    /\ pc = "end_headers"
    /\ resp' = end_headers(rv, resp)
    /\ pc' = "body"
    /\ UNCHANGED <<startVars, closes, status, out, req, rv, guess, inflight,
                   log>>
    /\ UNCHANGED <<envVars, intVars>>

\* the body: the error page, the listing, or the file copied by do_GET
Body ==
    /\ pc = "body"
    /\ resp' = [resp EXCEPT !.body = resp.entity]
    /\ pc' = "finish"
    /\ UNCHANGED <<startVars, closes, status, out, req, rv, guess, inflight,
                   log>>
    /\ UNCHANGED <<envVars, intVars>>

\* the handler returns; the server shuts the connection down
Finish ==
    /\ pc = "finish"
    /\ log' = Append(log, IF resp.status >= 400 THEN "error" ELSE "ok")
    /\ inflight' = inflight - 1
    /\ req' = NoReq
    /\ rv' = ""
    /\ resp' = NoResp
    /\ guess' = NoGuess
    /\ pc' = "accept"
    /\ UNCHANGED <<startVars, closes, status, out>>
    /\ UNCHANGED <<envVars, intVars>>

\* a variant in which the exception leaves serve_forever and the process
HandleError_Propagate ==
    /\ pc = "fault"
    /\ log' = Append(log, "fault")
    /\ inflight' = inflight - 1
    /\ sock' = "closed"
    /\ closes' = closes + 1
    /\ Unhandled
    /\ UNCHANGED <<res, cwd, entered, binds, bound, req, rv, resp, guess>>
    /\ UNCHANGED <<envVars, intVars>>

\* an Exception left the handler: the server's handle_error prints the
\* traceback, shuts the connection down and goes on
HandleError ==
    /\ pc = "fault"
    /\ out' = Append(out, Msg("traceback"))
    /\ log' = Append(log, "fault")
    /\ inflight' = inflight - 1
    /\ req' = NoReq
    /\ rv' = ""
    /\ resp' = NoResp
    /\ guess' = NoGuess
    /\ pc' = "accept"
    /\ UNCHANGED <<startVars, closes, status>>
    /\ UNCHANGED <<envVars, intVars>>

(***************************************************************************)
(* The interrupt.  KeyboardInterrupt is raised in the main thread where    *)
(* it stands inside the with block; it is no Exception, so the server      *)
(* shuts the connection in hand down and lets it through.  One interrupt   *)
(* is delivered to a run.                                                  *)
(***************************************************************************)
Interrupt ==
    /\ pc \in {"announce"} \cup LoopPcs
    /\ ~interrupted
    /\ interrupted' = TRUE
    /\ intAt' = pc
    /\ inflight' = 0
    /\ req' = NoReq
    /\ rv' = ""
    /\ resp' = NoResp
    /\ guess' = NoGuess
    /\ pc' = "with_exit"
    /\ UNCHANGED <<startVars, closes, status, out, log>>
    /\ UNCHANGED envVars

\* a variant in which the with block is left without server_close()
WithExit_NoClose ==
    /\ pc = "with_exit"
    /\ pc' = "except_interrupt"
    /\ UNCHANGED <<startVars, closes, status, out>>
    /\ UNCHANGED <<envVars, intVars, connVars>>

\* leaving the with block: TCPServer.__exit__ calls server_close()
WithExit ==
    /\ pc = "with_exit"
    /\ sock' = "closed"
    /\ closes' = closes + 1
    /\ pc' = "except_interrupt"
    /\ UNCHANGED <<res, cwd, entered, binds, bound, status, out>>
    /\ UNCHANGED <<envVars, intVars, connVars>>

\* except KeyboardInterrupt: print, sys.exit(0)
Stopped ==
    /\ pc = "except_interrupt"
    /\ out' = Append(out, Msg("stopped"))
    /\ status' = 0
    /\ pc' = "exited"
    /\ UNCHANGED <<startVars, closes>>
    /\ UNCHANGED <<envVars, intVars, connVars>>

(***************************************************************************)
(* The specifications.                                                     *)
(***************************************************************************)
Next ==
    \/ Main
    \/ Chdir
    \/ Bind
    \/ Announce
    \/ \E r \in Requests : Accept(r)
    \/ ParseRequest
    \/ SendHead
    \/ EndHeaders
    \/ Body
    \/ Finish
    \/ HandleError
    \/ Interrupt
    \/ WithExit
    \/ Stopped

\* a run from one of ServeArgv, through the serving loop
Spec == Init /\ [][Next]_vars

\* the same, with the process going on once the interrupt is raised
FairSpec == Spec /\ WF_vars(WithExit) /\ WF_vars(Stopped)

\* the startup of a run from any command line of ArgvSet
NextArgs ==
    \/ Main
    \/ Chdir
    \/ Bind

SpecArgs == InitArgs /\ [][NextArgs]_vars

(***************************************************************************)
(* Properties.                                                             *)
(***************************************************************************)
\* the header block of the response in hand is complete
HeadersDone == pc \in {"body", "finish"}

\* the handling of the request in hand has ended, in a response or a fault
RequestEnded == pc \in {"finish", "fault"}

HeaderValues(name) ==
    {resp.headers[i][2] : i \in {j \in 1..Len(resp.headers) :
                                    resp.headers[j][1] = name}}

RECURSIVE IsSubseq(_, _)
IsSubseq(a, b) ==
    IF a = <<>> THEN TRUE
    ELSE IF b = <<>> THEN FALSE
    ELSE IF Head(a) = Head(b) THEN IsSubseq(Tail(a), Tail(b))
    ELSE IsSubseq(a, Tail(b))

\* the six headers as the specification lists them
SixHeaders ==
    << <<"Cache-Control", "no-cache, no-store, must-revalidate">>,
       <<"Pragma", "no-cache">>,
       <<"Expires", "0">>,
       <<"X-Content-Type-Options", "nosniff">>,
       <<"X-Frame-Options", "DENY">>,
       <<"X-XSS-Protection", "1; mode=block">> >>

HasSixHeaders == resp.terminated /\ IsSubseq(SixHeaders, resp.headers)

\* the mimetype the override table asks for, by suffix
TableMime(path, baseline) ==
    CASE endswith(path, ".js") \/ endswith(path, ".mjs") ->
            "application/javascript"
      [] endswith(path, ".json") -> "application/json"
      [] endswith(path, ".css") -> "text/css"
      [] endswith(path, ".html") -> "text/html"
      [] OTHER -> baseline

(***************************************************************************)
(* C1.  Whenever guess_type has been called on a path, it has returned a   *)
(* pair whose mimetype is the override table's entry for the suffix of     *)
(* the path and otherwise the default guesser's mimetype.                  *)
(* The code does not: the default guesser returns one string, and          *)
(* unpacking it into (mimetype, encoding) raises ValueError.               *)
(***************************************************************************)
C1_GuessTypeReturnsPair ==
    guess.called =>
        /\ ~guess.raised
        /\ guess.mimetype = TableMime(guess.path, StockGuessType(guess.path))

(***************************************************************************)
(* C2, as claimed.  Every response the server writes, whatever the method  *)
(* and the status, has a terminated header block that holds the six fixed  *)
(* headers in their order.                                                 *)
(***************************************************************************)
C2_EveryResponseHasSixHeaders ==
    HeadersDone => HasSixHeaders

(***************************************************************************)
(* C2, amended.  Every response to a request whose request_version is not  *)
(* HTTP/0.9 has a terminated header block that holds the six fixed headers *)
(* in their order; a response to an HTTP/0.9 request (a request line of    *)
(* two words, or one whose version the stock handler refuses) has no       *)
(* header block at all.                                                    *)
(***************************************************************************)
C2_ResponsesWithHeaderBlockHaveSixHeaders ==
    HeadersDone =>
        IF rv = "HTTP/0.9"
        THEN resp.headers = <<>> /\ ~resp.terminated
        ELSE HasSixHeaders

\* an error response to a POST with its six headers, body written
C2_Witness ==
    /\ pc = "finish"
    /\ req.method = "POST"
    /\ resp.status = 501
    /\ resp.body
    /\ HasSixHeaders

(***************************************************************************)
(* C3.  With the server started on a directory that holds index.html, a    *)
(* GET of /index.html ends in a response of status 200 with Content-Type   *)
(* text/html and the six fixed headers.                                    *)
(* The code does not: guess_type raises (C1) and no response is written.   *)
(***************************************************************************)
C3_IndexHtmlIsServed ==
    ( /\ RequestEnded
      /\ req.method = "GET"
      /\ req.target = "/index.html"
      /\ req.version \in {"HTTP/1.0", "HTTP/1.1"}
      /\ IsFile(cwd, "/index.html") )
    =>
    ( /\ pc = "finish"
      /\ resp.status = 200
      /\ HeaderValues("Content-type") = {"text/html"}
      /\ HasSixHeaders )

(***************************************************************************)
(* C4.  A bind that finds (host, port) held by another instance ends the   *)
(* process with status 1 and a message that names the port, without the    *)
(* serving loop being entered and with no listening socket left open.      *)
(* The code does so only where "address already in use" is errno 48.       *)
(***************************************************************************)
C4_PortInUseIsReported ==
    bound = "in_use" =>
        /\ pc = "exited"
        /\ status = 1
        /\ \E i \in 1..Len(out) :
              out[i] = [kind |-> "port_in_use", port |-> res.port]
        /\ ~Printed("serving")
        /\ sock # "listening"

(***************************************************************************)
(* Command lines, as the claims speak of them.                             *)
(***************************************************************************)
\* there is a first argument and it does not begin with "-"
FirstIsPositional ==
    Len(argv) > 0 /\ (argv[1] = "" \/ SubSeq(argv[1], 1, 1) # "-")

\* the places of the port flags that are followed by a non-numeric value
BadPortFlags ==
    {i \in 1..(Len(argv) - 1) :
        argv[i] \in {"--port", "-p"} /\ ~PyInt(argv[i + 1]).ok}

\* the port value is non-numeric, in the style the command line is in
NonNumericPort ==
    IF FirstIsPositional THEN ~PyInt(argv[1]).ok ELSE BadPortFlags # {}

\* a help flag stands before every non-numeric port value
HelpPrecedes ==
    /\ ~FirstIsPositional
    /\ \E j \in 1..Len(argv) :
          /\ argv[j] \in {"-h", "--help"}
          /\ \A i \in BadPortFlags : j < i

NothingOpened ==
    /\ binds = 0
    /\ sock = "none"
    /\ entered = "no"
    /\ cwd = LaunchDir

(***************************************************************************)
(* C5, as claimed.  With a non-numeric port value, in either style, the    *)
(* process exits with a non-zero status, and no bind and no change of      *)
(* directory is made in the run.                                           *)
(***************************************************************************)
C5_NonNumericPortExitsNonZero ==
    NonNumericPort =>
        /\ NothingOpened
        /\ pc \in {"start", "exited"}
        /\ pc = "exited" => status # 0

(***************************************************************************)
(* C5, amended.  With a non-numeric port value, in either style, no bind   *)
(* and no change of directory is made in the run, and the process exits    *)
(* with a non-zero status unless a help flag (-h, --help) stands before    *)
(* the non-numeric port value on a flag-style command line: argparse may   *)
(* then print the help and exit with status 0.                             *)
(***************************************************************************)
C5_NonNumericPortNeverBinds ==
    NonNumericPort =>
        /\ NothingOpened
        /\ pc \in {"start", "exited"}
        /\ (pc = "exited" /\ ~HelpPrecedes) => status # 0

\* a usage error on a flag-style command line with a non-numeric port
C5_Witness ==
    /\ NonNumericPort
    /\ ~FirstIsPositional
    /\ pc = "exited"
    /\ status = 2
    /\ NothingOpened

(***************************************************************************)
(* C7.  The directory is entered before any socket is opened: a bind is    *)
(* attempted, and a socket listens, only with the working directory being  *)
(* the configured one (entered by os.chdir, or "." where the process       *)
(* already is); a change of directory that fails ends the process with an  *)
(* error and without a bind.                                               *)
(***************************************************************************)
RootEntered ==
    \/ res.directory = "." /\ entered = "no" /\ cwd = LaunchDir
    \/ entered = "ok" /\ cwd = res.directory

C7_DirectoryEnteredBeforeBind ==
    /\ (binds > 0 \/ sock # "none") => (res.kind = "config" /\ RootEntered)
    /\ entered = "failed" =>
          /\ binds = 0
          /\ sock = "none"
          /\ pc = "exited"
          /\ status # 0
          /\ Printed("traceback")

\* the directory does not exist: the process has ended without a bind
C7_Witness ==
    /\ entered = "failed"
    /\ pc = "exited"
    /\ binds = 0
    /\ res.directory = "nodir"

(***************************************************************************)
(* C8.  The legacy positional style is taken exactly when there is a first *)
(* argument that does not begin with "-".  In it the configuration is the  *)
(* integer value of argument 1, argument 2 or ".", argument 3 or           *)
(* "0.0.0.0", and no argument is read as a flag.  Otherwise the flag       *)
(* parser is used: what no flag gives is 8080, "." and "0.0.0.0", and no   *)
(* positional argument contributes.                                        *)
(***************************************************************************)
FlagValues(flags) ==
    {argv[i + 1] : i \in {j \in 1..(Len(argv) - 1) : argv[j] \in flags}}

C8_StyleSelection ==
    pc # "start" =>
        /\ (res.style = "legacy") <=> FirstIsPositional
        /\ (res.style = "flag") <=> ~FirstIsPositional
        /\ res.style = "legacy" =>
              /\ res.kind = (IF PyInt(argv[1]).ok THEN "config" ELSE "raise")
              /\ res.kind = "config" =>
                    /\ res.port = PyInt(argv[1]).val
                    /\ res.directory = (IF Len(argv) >= 2 THEN argv[2] ELSE ".")
                    /\ res.host = (IF Len(argv) >= 3 THEN argv[3]
                                   ELSE "0.0.0.0")
        /\ (res.style = "flag" /\ res.kind = "config") =>
              /\ Len(argv) % 2 = 0
              /\ \A i \in 1..Len(argv) :
                    i % 2 = 1 => argv[i] \in {"--port", "-p", "--directory",
                                              "-d", "--host"}
              /\ res.port \in
                    IF FlagValues({"--port", "-p"}) = {} THEN {8080}
                    ELSE {PyInt(v).val : v \in FlagValues({"--port", "-p"})}
              /\ res.directory \in
                    IF FlagValues({"--directory", "-d"}) = {} THEN {"."}
                    ELSE FlagValues({"--directory", "-d"})
              /\ res.host \in
                    IF FlagValues({"--host"}) = {} THEN {"0.0.0.0"}
                    ELSE FlagValues({"--host"})

\* a legacy command line whose second argument looks like a flag
C8_Witness ==
    /\ pc # "start"
    /\ res.kind = "config"
    /\ res.style = "legacy"
    /\ argv = <<"80", "-p">>
    /\ res.directory = "-p"
    /\ res.host = "0.0.0.0"

(***************************************************************************)
(* C6.  An interrupt that arrives in the serving loop, at the accept or    *)
(* in the middle of a request, leads to the process having printed the     *)
(* stop confirmation and exited with status 0, the listening socket        *)
(* released exactly once; and a process that served ends in no other way.  *)
(***************************************************************************)
InLoopAtInterrupt ==
    intAt \in {"accept", "parse", "send_head", "end_headers", "body",
               "finish", "fault"}

StoppedCleanly ==
    /\ pc = "exited"
    /\ status = 0
    /\ Printed("stopped")
    /\ sock = "closed"
    /\ closes = 1

C6_InterruptStopsCleanly ==
    /\ [](closes <= 1)
    /\ []((pc = "exited" /\ Printed("serving")) =>
             (interrupted /\ StoppedCleanly))
    /\ (interrupted /\ InLoopAtInterrupt) ~> StoppedCleanly

\* stopped by an interrupt that arrived in the middle of a request
C6_Witness ==
    /\ interrupted
    /\ intAt = "body"
    /\ StoppedCleanly

(***************************************************************************)
(* C9.  A request that ends in an error status, or in an exception raised  *)
(* inside the handler, leaves the server serving: the socket listens, the  *)
(* configuration and the working directory are what they were, the process *)
(* has not exited, and at the accept the next connection can be taken.     *)
(***************************************************************************)
ErrorSeen ==
    \/ \E i \in 1..Len(log) : log[i] \in {"error", "fault"}
    \/ pc = "fault"
    \/ pc \in {"end_headers", "body", "finish"} /\ resp.status >= 400

C9_RequestErrorsKeepServing ==
    (ErrorSeen /\ ~interrupted) =>
        /\ pc \in {"accept", "parse", "send_head", "end_headers", "body",
                   "finish", "fault"}
        /\ sock = "listening"
        /\ closes = 0
        /\ res = ResolveArgs(argv)
        /\ RootEntered
        /\ (pc = "accept" /\ Len(log) < MaxRequests) =>
               ENABLED (\E r \in Requests : Accept(r))

\* a connection handled to a response after one that ended in an exception
C9_Witness ==
    /\ Len(log) >= 2
    /\ log[1] = "fault"
    /\ log[2] = "ok"
    /\ pc = "accept"
    /\ sock = "listening"
    /\ ~interrupted

(***************************************************************************)
(* C10.  At most one request is in flight: a connection is accepted only   *)
(* at the accept, with no connection in hand, and the one in hand is shut  *)
(* down before the loop is at the accept again.                            *)
(***************************************************************************)
C10_OneRequestInFlight ==
    /\ inflight <= 1
    /\ pc = "accept" => (inflight = 0 /\ req = NoReq)
    /\ pc \in {"parse", "send_head", "end_headers", "body", "finish", "fault"}
          => (inflight = 1 /\ req # NoReq)

\* a second connection in hand, after the first was handled to its end
C10_Witness ==
    /\ Len(log) >= 1
    /\ inflight = 1
    /\ pc = "body"

====
